---- MODULE Spec2Model ----
(***************************************************************************)
(* A model of src/monitor.py: the ResourceMonitor object, its monitoring   *)
(* loop thread, the command thread of the Telegram bot, the main thread of *)
(* run() and the thread of restart_application.                            *)
(*                                                                         *)
(* Time is the reading of time.time() / datetime.now() in steps of         *)
(* 1/Second of a second. It advances where the code blocks:                *)
(* psutil.cpu_percent(interval=1), requests.post(..., timeout=10) and      *)
(* time.sleep(1); between the construction of the object and run() it      *)
(* advances by whatever the start of the program takes.                    *)
(*                                                                         *)
(* Resource names are written in ASCII: "Memory" is the source's           *)
(* "Память", "Disk /" is "Диск /", "Net out"/"Net in" are the two          *)
(* "Сеть (...)" resources.                                                 *)
(***************************************************************************)
EXTENDS Integers, Sequences, FiniteSets, TLC

VARIABLES
    now,                \* the clock: time.time() and datetime.now()
    process,            \* "running" | "exited" | "execed" (image replaced by os.execl)
    config,             \* self.config
    monitoring_enabled, \* self.monitoring_enabled
    monitoring_thread,  \* self.monitoring_thread: None or a thread id
    stop_event,         \* self.stop_event
    lock,               \* self.lock: Unlocked or its holder
    alert_history,      \* self.alert_history
    stats,              \* self.stats
    last_alert_times,   \* self.last_alert_times
    current_metrics,    \* self.current_metrics
    prev_net_io,        \* self.prev_net_io (cumulative bytes sent / received)
    prev_check_time,    \* self.prev_check_time
    pc,                 \* position of every monitoring_loop thread
    alerts,             \* check_resources' local list `alerts`, per thread
    idx,                \* position of `for alert in alerts`, per thread
    slept,              \* iterations done of `for _ in range(check_interval)`
    next_tid,           \* the id the next threading.Thread gets
    ctl_pc,             \* position of the main, command and restart_application threads
    snap,               \* save_state's local `state['alert_history']`, per caller
    joining,            \* the thread a caller's `self.monitoring_thread.join` waits for
    reply,              \* what the bot's handler last answered
    file,               \* monitor_state.json
    commands,           \* commands the bot has handed to its handler thread
    prev_image,         \* the in-memory state the process had when os.execl replaced it
    recorded,           \* every alert appended to alert_history, in order
    gate_log,           \* every evaluation of can_send_alert
    send_calls,         \* every call of send_telegram_message
    observed            \* what the host answered to the checks of the last tick

vars == <<now, process, config, monitoring_enabled, monitoring_thread, stop_event,
          lock, alert_history, stats, last_alert_times, current_metrics,
          prev_net_io, prev_check_time, pc, alerts, idx, slept, next_tid,
          ctl_pc, snap, joining, reply, file, commands, prev_image, recorded, gate_log,
          send_calls, observed>>

(***************************************************************************)
(* Bounds of the model.                                                    *)
(***************************************************************************)
\* clock readings per second
Second == 2
\* clock readings run from second Epoch to second Epoch + MaxTime
Epoch == 10
MaxTime == 4
\* clock horizon of the specification that fills the history
MaxTimeHistory == 160
\* threads that threading.Thread may create in one run
MaxThreads == 2
\* longest requests.post, in seconds of the model
SendLatencyMax == 1
\* notification_cooldown_seconds and check_interval_seconds of the model's config
Cooldown == 3
CheckInterval == 1
\* commands the bot receives in one run
MaxCommands == 2
\* clock readings that pass, at most, between the construction of the object and
\* its first tick
MaxStartupDelay == 3
\* largest counter and longest history drawn for the save / load round trip
MaxCountRT == 2
MaxLenRT == 2
\* longest history a start finds in monitor_state.json, for the handlers that
\* read the state
MaxSaved == 12

(***************************************************************************)
(* Program constants.                                                      *)
(***************************************************************************)
HistoryCap == 100
AlertsShown == 10
CriticalAbove == 90
CpuSampleSeconds == 1
SleepSeconds == 1
BytesPerMiB == 1048576
None == 0

Threads == 1..MaxThreads
Controllers == {"main", "cmd", "app"}
Unlocked == <<>>
Holder(t) == <<"monitor", t>>

\* n seconds as a difference of clock readings
Seconds(n) == n * Second

Min(a, b) == IF a < b THEN a ELSE b

\* the first n elements of s
FirstN(s, n) == IF Len(s) <= n THEN s ELSE SubSeq(s, 1, n)

\* the last n elements of s (s[-n:])
LastN(s, n) == IF Len(s) <= n THEN s ELSE SubSeq(s, Len(s) - n + 1, Len(s))


(***************************************************************************)
(* Alerts and the four checks, as functions of the readings.               *)
(***************************************************************************)
\* AlertLevel: the member names, which are also the members' values
AlertLevel == {"INFO", "WARNING", "CRITICAL", "ERROR"}

Alert(level, resource, message, value, threshold, timestamp) ==
    [level |-> level, resource |-> resource, message |-> message,
     value |-> value, threshold |-> threshold, timestamp |-> timestamp]

\* a severity that is critical from 90 on
SeverityOfAtLeast(percent) == IF percent >= CriticalAbove THEN "CRITICAL" ELSE "WARNING"

\* `AlertLevel.CRITICAL if x > 90 else AlertLevel.WARNING`
SeverityOf(percent) == IF percent > CriticalAbove THEN "CRITICAL" ELSE "WARNING"

\* a comparison that is not strict
BreachOrEqual(value, threshold) == value >= threshold

\* `if cpu_percent > threshold`
Breach(value, threshold) == value > threshold

CpuAlerts(cfg, cpu_percent, ts) ==
    IF Breach(cpu_percent, cfg.threshold)
    THEN <<Alert(SeverityOf(cpu_percent), "CPU", "cpu over threshold",
                 cpu_percent, cfg.threshold, ts)>>
    ELSE <<>>

MemoryAlerts(cfg, mem_percent, ts) ==
    IF Breach(mem_percent, cfg.threshold)
    THEN <<Alert(SeverityOf(mem_percent), "Memory", "memory over threshold",
                 mem_percent, cfg.threshold, ts)>>
    ELSE <<>>

\* psutil.disk_partitions(): the mount points of the host
Partitions == <<"/", "/data">>

\* `partition.mountpoint in disk_paths or not disk_paths`
DiskSelected(cfg, mount) == mount \in cfg.paths \/ cfg.paths = {}

\* a disk check that gives up at the first partition it cannot read
RECURSIVE DiskAlertsAborting(_, _, _, _)
DiskAlertsAborting(cfg, parts, usage, ts) ==
    IF parts = <<>> THEN <<>>
    ELSE LET m == Head(parts) IN
         IF DiskSelected(cfg, m) /\ usage[m].err THEN <<>>
         ELSE (IF DiskSelected(cfg, m) /\ Breach(usage[m].percent, cfg.threshold)
               THEN <<Alert(SeverityOf(usage[m].percent), "Disk " \o m,
                            "disk over threshold", usage[m].percent,
                            cfg.threshold, ts)>>
               ELSE <<>>)
              \o DiskAlertsAborting(cfg, Tail(parts), usage, ts)

\* the body of `for partition in psutil.disk_partitions()`; usage[m] is what
\* psutil.disk_usage(m) does: [err |-> TRUE] raises, else percent is the reading
RECURSIVE DiskAlerts(_, _, _, _)
DiskAlerts(cfg, parts, usage, ts) ==
    IF parts = <<>> THEN <<>>
    ELSE LET m == Head(parts)
             rest == DiskAlerts(cfg, Tail(parts), usage, ts)
         IN IF DiskSelected(cfg, m) /\ ~usage[m].err
                /\ Breach(usage[m].percent, cfg.threshold)
            THEN <<Alert(SeverityOf(usage[m].percent), "Disk " \o m,
                         "disk over threshold", usage[m].percent,
                         cfg.threshold, ts)>> \o rest
            ELSE rest

\* current_metrics["disk_percent"] after check_disk
DiskMetric(cfg, usage, old) ==
    IF DiskSelected(cfg, "/") /\ ~usage["/"].err THEN usage["/"].percent ELSE old

\* `time_diff = current_time - self.prev_check_time; if time_diff == 0: time_diff = 1`
TimeDiff(current_time, prev_time) ==
    IF current_time - prev_time = 0 THEN Seconds(1) ELSE current_time - prev_time

\* `(current_net_io.bytes_sent - self.prev_net_io.bytes_sent) / (1024 * 1024)`;
\* the counters of the model's hosts are whole multiples of BytesPerMiB, for
\* which the quotient is exact
Mebibytes(bytes) == bytes \div BytesPerMiB

\* `mb_sent / time_diff`: a speed in MiB/s is the fraction num / den, time_diff
\* being a difference of clock readings
Rate(mb, time_diff) == [num |-> mb * Second, den |-> time_diff]
ZeroRate == [num |-> 0, den |-> 1]

\* `mb_sent_speed > threshold_sent` for the fraction num / den
RateAbove(rate, threshold) ==
    IF rate.den > 0 THEN rate.num > threshold * rate.den
    ELSE rate.num < threshold * rate.den

\* a network check that raises both alerts whenever the send rate is over its
\* threshold
NetworkAlertsBySent(cfg, sent_speed, recv_speed, ts) ==
    IF RateAbove(sent_speed, cfg.threshold_sent_mbps)
    THEN <<Alert("WARNING", "Net out", "send rate over threshold",
                 sent_speed, cfg.threshold_sent_mbps, ts),
           Alert("WARNING", "Net in", "receive rate over threshold",
                 recv_speed, cfg.threshold_recv_mbps, ts)>>
    ELSE <<>>

\* the two tests at the end of check_network
NetworkAlerts(cfg, sent_speed, recv_speed, ts) ==
    (IF RateAbove(sent_speed, cfg.threshold_sent_mbps)
     THEN <<Alert("WARNING", "Net out", "send rate over threshold",
                  sent_speed, cfg.threshold_sent_mbps, ts)>>
     ELSE <<>>)
    \o
    (IF RateAbove(recv_speed, cfg.threshold_recv_mbps)
     THEN <<Alert("WARNING", "Net in", "receive rate over threshold",
                  recv_speed, cfg.threshold_recv_mbps, ts)>>
     ELSE <<>>)

(***************************************************************************)
(* The cooldown gate.                                                      *)
(***************************************************************************)
EmptyTable == [k \in {} |-> 0]

\* a key that leaves the level out
AlertKeyByResource(resource, level) == resource

\* key = f"{resource}_{level.value}"
AlertKey(resource, level) == resource \o "_" \o level

\* self.last_alert_times.get(key, 0)
LastTime(table, key) == IF key \in DOMAIN table THEN table[key] ELSE 0

\* a gate that also lets an alert through one second early
SuppressedEarly(current_time, last_time, cooldown) ==
    current_time - last_time < cooldown - Second

\* a gate that still suppresses when exactly `cooldown` seconds have passed
SuppressedLate(current_time, last_time, cooldown) ==
    current_time - last_time <= cooldown

\* `if current_time - last_time < cooldown: return False`
Suppressed(current_time, last_time, cooldown) ==
    current_time - last_time < cooldown

\* a gate whose window starts anew with every breach, suppressed or not
CanSendAlertSliding(table, resource, level, current_time, cooldown) ==
    LET key == AlertKey(resource, level) IN
    [ok |-> ~Suppressed(current_time, LastTime(table, key), cooldown),
     table |-> [k \in DOMAIN table \cup {key} |->
                   IF k = key THEN current_time ELSE table[k]]]

\* can_send_alert: the answer and last_alert_times afterwards
CanSendAlert(table, resource, level, current_time, cooldown) ==
    LET key == AlertKey(resource, level) IN
    IF Suppressed(current_time, LastTime(table, key), cooldown)
    THEN [ok |-> FALSE, table |-> table]
    ELSE [ok |-> TRUE,
          table |-> [k \in DOMAIN table \cup {key} |->
                        IF k = key THEN current_time ELSE table[k]]]

(***************************************************************************)
(* The bounded history.                                                    *)
(***************************************************************************)
\* an eviction that removes the newest entry
EvictNewest(history) ==
    IF Len(history) > HistoryCap THEN SubSeq(history, 1, Len(history) - 1)
    ELSE history

\* `if len(self.alert_history) > 100: self.alert_history.pop(0)`
Evict(history) ==
    IF Len(history) > HistoryCap THEN Tail(history) ELSE history


(***************************************************************************)
(* monitor_state.json: save_state and load_state.                          *)
(***************************************************************************)
\* datetime.isoformat() and datetime.fromisoformat()
IsoFormat(ts) == <<"iso", ts>>
FromIsoFormat(text) == text[2]

\* a datetime object, and the string a loaded document holds in its place
DateTime(ts) == [type |-> "datetime", at |-> ts]
NotWritten == [type |-> "absent", at |-> 0]

\* Alert.to_dict
ToDict(alert) ==
    [level |-> alert.level, resource |-> alert.resource, message |-> alert.message,
     value |-> alert.value, threshold |-> alert.threshold,
     timestamp |-> IsoFormat(alert.timestamp)]

ToDicts(history) == [i \in 1..Len(history) |-> ToDict(history[i])]

\* Alert(level=AlertLevel[alert_data['level']], ...) of load_state
FromDict(d) ==
    Alert(d.level, d.resource, d.message, d.value, d.threshold,
          FromIsoFormat(d.timestamp))

\* AlertLevel[name] raises KeyError for a name that is no member
WellFormed(d) == d.level \in AlertLevel

NoFile ==
    [exists |-> FALSE, complete |-> FALSE, alert_history |-> <<>>,
     stats |-> [checks |-> 0, alerts_triggered |-> 0, notifications_sent |-> 0,
                start_time |-> NotWritten],
     last_alert_times |-> EmptyTable]

\* json can write every value of the state but a datetime object
JsonSerializable(v) == v.type # "datetime"

\* open('monitor_state.json', 'w') and json.dump(state, f): the document is
\* written key by key, and what was written stays when json.dump raises
Dump(dicts, st, table) ==
    IF JsonSerializable(st.start_time)
    THEN [exists |-> TRUE, complete |-> TRUE, alert_history |-> dicts,
          stats |-> st, last_alert_times |-> table]
    ELSE [exists |-> TRUE, complete |-> FALSE, alert_history |-> dicts,
          stats |-> [st EXCEPT !.start_time = NotWritten],
          last_alert_times |-> EmptyTable]

\* the alerts load_state appends before the first entry that raises
RECURSIVE ParsedPrefix(_)
ParsedPrefix(dicts) ==
    IF dicts = <<>> \/ ~WellFormed(Head(dicts)) THEN <<>>
    ELSE <<FromDict(Head(dicts))>> \o ParsedPrefix(Tail(dicts))

\* the state __init__ sets before load_state
Defaults(ts) ==
    [alert_history |-> <<>>,
     stats |-> [checks |-> 0, alerts_triggered |-> 0, notifications_sent |-> 0,
                start_time |-> DateTime(ts)],
     last_alert_times |-> EmptyTable]

\* load_state on top of the defaults d
Load(f, d) ==
    IF ~f.exists THEN d
    ELSE IF ~f.complete THEN d
    ELSE LET parsed == ParsedPrefix(f.alert_history) IN
         IF Len(parsed) < Len(f.alert_history)
         THEN [d EXCEPT !.alert_history = parsed]
         ELSE [alert_history |-> parsed, stats |-> f.stats,
               last_alert_times |-> f.last_alert_times]

(***************************************************************************)
(* Configuration and environment.                                          *)
(***************************************************************************)
\* create_default_config, with the model's interval and cooldown; disk and
\* network are switched off in this configuration
ConfigCpuMemory ==
    [check_interval |-> CheckInterval,
     cooldown |-> Cooldown,
     cpu |-> [enabled |-> TRUE, threshold |-> 80],
     memory |-> [enabled |-> TRUE, threshold |-> 80],
     disk |-> [enabled |-> FALSE, threshold |-> 80, paths |-> {"/"}],
     network |-> [enabled |-> FALSE, threshold_sent_mbps |-> 10,
                  threshold_recv_mbps |-> 10],
     telegram |-> [enabled |-> TRUE]]

\* what the host and the channel can answer: readings at and over the
\* thresholds, a message delivered at once or lost after SendLatencyMax seconds
Env ==
    [cpu |-> {80, 85, 95},
     memory |-> {50, 85},
     disk |-> {[err |-> FALSE, percent |-> 50]},
     net |-> {[sent |-> 0, recv |-> 0]},
     post |-> {[secs |-> 0, delivered |-> TRUE],
               [secs |-> Seconds(SendLatencyMax), delivered |-> FALSE]},
     horizon |-> Seconds(Epoch + MaxTime)]

\* a host with the CPU steadily over its threshold and a slow channel
EnvSteady ==
    [cpu |-> {85},
     memory |-> {50},
     disk |-> {[err |-> FALSE, percent |-> 50]},
     net |-> {[sent |-> 0, recv |-> 0]},
     post |-> {[secs |-> Seconds(SendLatencyMax), delivered |-> TRUE]},
     horizon |-> Seconds(Epoch + MaxTime)]

\* a host that is always over its thresholds, for as long as the history takes
\* to fill
EnvHistory ==
    [cpu |-> {95},
     memory |-> {85},
     disk |-> {[err |-> FALSE, percent |-> 50]},
     net |-> {[sent |-> 0, recv |-> 0]},
     post |-> {[secs |-> 0, delivered |-> TRUE]},
     horizon |-> Seconds(Epoch + MaxTimeHistory)]

\* a configuration with every category switched on
ConfigChecks(threshold, paths, cpu_enabled) ==
    [check_interval |-> CheckInterval,
     cooldown |-> Cooldown,
     cpu |-> [enabled |-> cpu_enabled, threshold |-> threshold],
     memory |-> [enabled |-> TRUE, threshold |-> threshold],
     disk |-> [enabled |-> TRUE, threshold |-> threshold, paths |-> paths],
     network |-> [enabled |-> TRUE, threshold_sent_mbps |-> 10,
                  threshold_recv_mbps |-> 10],
     telegram |-> [enabled |-> TRUE]]

\* the thresholds and the disk paths drawn for it: `paths: []` selects every
\* partition, and "/home" is a directory that is no partition of the host
ChecksThresholds == {80, 100}
ChecksPaths == {{"/"}, {}, {"/data", "/home"}}

\* a host whose readings lie at, just over and far over the thresholds, with a
\* partition that cannot be read and traffic of 0, 10 and 20 MiB in either
\* direction between two checks
EnvChecks ==
    [cpu |-> {80, 85, 90, 95, 100},
     memory |-> {80, 100},
     disk |-> {[err |-> TRUE, percent |-> 0], [err |-> FALSE, percent |-> 80],
               [err |-> FALSE, percent |-> 91]},
     net |-> {[sent |-> 10 * BytesPerMiB, recv |-> 0],
              [sent |-> 20 * BytesPerMiB, recv |-> 10 * BytesPerMiB],
              [sent |-> 0, recv |-> 20 * BytesPerMiB]},
     post |-> {[secs |-> 0, delivered |-> TRUE]},
     horizon |-> Seconds(Epoch) + MaxStartupDelay]

(***************************************************************************)
(* The state after ResourceMonitor.__init__.                               *)
(***************************************************************************)
\* the handler thread has answered nothing yet
NoReply == [kind |-> "none"]

\* no check has read the host yet
NoReading ==
    [at |-> 0, read |-> FALSE, elapsed |-> 0,
     host |-> [cpu |-> 0, memory |-> 0,
               disk |-> [m \in {Partitions[i] : i \in 1..Len(Partitions)} |->
                           [err |-> TRUE, percent |-> 0]],
               net |-> [sent |-> 0, recv |-> 0]]]

\* everything but the three persisted structures: the object was built at clock
\* reading `built`, the clock now reads ts
Fresh(cfg, built, ts) ==
    /\ now = ts
    /\ process = "running"
    /\ config = cfg
    /\ monitoring_enabled = TRUE
    /\ monitoring_thread = None
    /\ stop_event = FALSE
    /\ lock = Unlocked
    /\ current_metrics = [cpu_percent |-> 0, memory_percent |-> 0, disk_percent |-> 0,
                          network_sent_speed |-> ZeroRate,
                          network_recv_speed |-> ZeroRate]
    /\ prev_net_io = [sent |-> 0, recv |-> 0]
    /\ prev_check_time = built
    /\ pc = [t \in Threads |-> "unborn"]
    /\ alerts = [t \in Threads |-> <<>>]
    /\ idx = [t \in Threads |-> 0]
    /\ slept = [t \in Threads |-> 0]
    /\ next_tid = 1
    /\ snap = [c \in Controllers |-> <<>>]
    /\ joining = [c \in Controllers |-> None]
    /\ reply = NoReply
    /\ commands = 0
    /\ recorded = <<>>
    /\ gate_log = <<>>
    /\ send_calls = <<>>
    /\ observed = NoReading

\* __init__ with monitor_state.json being f
Boot(cfg, f, ts) ==
    LET loaded == Load(f, Defaults(ts)) IN
    /\ Fresh(cfg, ts, ts)
    /\ alert_history = loaded.alert_history
    /\ stats = loaded.stats
    /\ last_alert_times = loaded.last_alert_times
    /\ file = f

\* the first start of the program: no monitor_state.json yet, run() not yet called
Init ==
    /\ Boot(ConfigCpuMemory, NoFile, Seconds(Epoch))
    /\ ctl_pc = [c \in Controllers |-> IF c = "main" THEN "run" ELSE "off"]
    /\ prev_image = Defaults(Seconds(Epoch))

(***************************************************************************)
(* The monitoring_loop thread t. e is the environment it runs in.          *)
(***************************************************************************)
Running == process = "running"

IsAlive(t) == t # None /\ pc[t] \notin {"unborn", "dead"}

\* inside check_resources
InTick(t) == pc[t] \in {"checks", "record", "critical", "can_send_alert", "send"}

MonitorLocals == <<alerts, idx, slept>>
Shared == <<monitoring_enabled, monitoring_thread, stop_event, config, process>>
Controls == <<ctl_pc, snap, joining, reply, file, prev_image, next_tid, commands>>
Logs == <<recorded, gate_log, send_calls>>
Sampled == <<prev_net_io, prev_check_time, observed>>

\* a tick that counts itself before it looks at the enabled flag
ChecksAfterEntryAlways(enabled, checks) == checks + 1

\* stats["checks"] after the first lines of check_resources
ChecksAfterEntry(enabled, checks) == IF enabled THEN checks + 1 ELSE checks

\* a loop that never looks at the event
StopObservedNever == FALSE

\* `self.stop_event.is_set()`, as the loop reads it before a tick and before
\* every second of its sleep
StopObserved == stop_event

\* a tick that runs its checks whether monitoring is enabled or not
TickEntryAlways(enabled) == "checks"

\* `if not self.monitoring_enabled: return []`: where the tick goes from its entry
TickEntry(enabled) == IF enabled THEN "checks" ELSE "sleep"

\* `while not self.stop_event.is_set(): self.check_resources()` up to
\* `alerts = []`: the thread ends, or the tick returns at once, or it is counted
LoopHead(t) ==
    /\ Running /\ pc[t] = "loop"
    /\ IF StopObserved
       THEN /\ pc' = [pc EXCEPT ![t] = "dead"]
            /\ stats' = stats
       ELSE /\ monitoring_enabled => lock = Unlocked
            /\ stats' = [stats EXCEPT
                           !.checks = ChecksAfterEntry(monitoring_enabled, @)]
            /\ pc' = [pc EXCEPT ![t] = TickEntry(monitoring_enabled)]
    /\ UNCHANGED <<now, lock, alert_history, last_alert_times, current_metrics,
                   Sampled, MonitorLocals, Shared, Controls, Logs>>

\* the host's answers to one tick: a reading for each category
Readings(e) ==
    [cpu : e.cpu, memory : e.memory,
     disk : [{Partitions[i] : i \in 1..Len(Partitions)} -> e.disk],
     net : e.net]

\* the part of r the checks of this configuration read
Answered(r) ==
    [cpu |-> IF config.cpu.enabled THEN r.cpu ELSE 0,
     memory |-> IF config.memory.enabled THEN r.memory ELSE 0,
     disk |-> [m \in DOMAIN r.disk |->
                 IF config.disk.enabled /\ DiskSelected(config.disk, m)
                 THEN r.disk[m] ELSE [err |-> TRUE, percent |-> 0]],
     net |-> IF config.network.enabled THEN r.net ELSE [sent |-> 0, recv |-> 0]]

\* a check that runs whether its category is enabled or not
SkippedNever(cfg) == FALSE

\* `if not config.get("enabled", True): return []`, the first lines of each check
Skipped(cfg) == ~cfg.enabled

\* check_cpu: the alerts it returns
CheckCpu(r, ts) ==
    IF Skipped(config.cpu) THEN <<>> ELSE CpuAlerts(config.cpu, r.cpu, ts)

\* check_memory
CheckMemory(r, ts) ==
    IF Skipped(config.memory) THEN <<>> ELSE MemoryAlerts(config.memory, r.memory, ts)

\* check_disk
CheckDisk(r, ts) ==
    IF Skipped(config.disk) THEN <<>>
    ELSE DiskAlerts(config.disk, Partitions, r.disk, ts)

\* psutil.net_io_counters(): the cumulative counters, grown by r.net bytes
\* since they were last read
CurrentNetIo(r) ==
    [sent |-> prev_net_io.sent + r.net.sent, recv |-> prev_net_io.recv + r.net.recv]

\* the speeds check_network computes
SentSpeed(r, ts) ==
    Rate(Mebibytes(CurrentNetIo(r).sent - prev_net_io.sent),
         TimeDiff(ts, prev_check_time))
RecvSpeed(r, ts) ==
    Rate(Mebibytes(CurrentNetIo(r).recv - prev_net_io.recv),
         TimeDiff(ts, prev_check_time))

\* check_network
CheckNetwork(r, ts) ==
    IF Skipped(config.network) THEN <<>>
    ELSE NetworkAlerts(config.network, SentSpeed(r, ts), RecvSpeed(r, ts), ts)

\* current_metrics after the four checks
MetricsAfter(r, ts) ==
    [cpu_percent |-> IF config.cpu.enabled THEN r.cpu ELSE current_metrics.cpu_percent,
     memory_percent |-> IF config.memory.enabled THEN r.memory
                        ELSE current_metrics.memory_percent,
     disk_percent |-> IF config.disk.enabled
                      THEN DiskMetric(config.disk, r.disk, current_metrics.disk_percent)
                      ELSE current_metrics.disk_percent,
     network_sent_speed |-> IF config.network.enabled THEN SentSpeed(r, ts)
                            ELSE current_metrics.network_sent_speed,
     network_recv_speed |-> IF config.network.enabled THEN RecvSpeed(r, ts)
                            ELSE current_metrics.network_recv_speed]

\* the seconds psutil.cpu_percent(interval=1) blocks for
SampleTime == IF config.cpu.enabled THEN Seconds(CpuSampleSeconds) ELSE 0

\* `alerts.extend(self.check_cpu())` ... `alerts.extend(self.check_network())`:
\* every check answers
RunChecks(t, e) ==
    /\ Running /\ pc[t] = "checks"
    /\ lock = Unlocked
    /\ now + SampleTime <= e.horizon
    /\ now' = now + SampleTime
    /\ \E r \in Readings(e) :
         LET found == CheckCpu(r, now') \o CheckMemory(r, now') \o CheckDisk(r, now')
                      \o CheckNetwork(r, now')
         IN /\ observed' = [at |-> now', read |-> TRUE, host |-> Answered(r),
                            elapsed |-> now' - prev_check_time]
            /\ current_metrics' = MetricsAfter(r, now')
            /\ alerts' = [alerts EXCEPT ![t] = found]
            /\ idx' = [idx EXCEPT ![t] = IF found = <<>> THEN 0 ELSE 1]
            /\ pc' = [pc EXCEPT ![t] = IF found = <<>> THEN "sleep" ELSE "record"]
            /\ IF config.network.enabled
               THEN /\ prev_net_io' = CurrentNetIo(r)
                    /\ prev_check_time' = now'
               ELSE UNCHANGED <<prev_net_io, prev_check_time>>
    /\ UNCHANGED <<lock, alert_history, stats, last_alert_times, slept, Shared,
                   Controls, Logs>>

\* the categories whose check reads the host
AnyCategoryEnabled ==
    config.cpu.enabled \/ config.memory.enabled \/ config.disk.enabled
        \/ config.network.enabled

\* where an exception raised inside check_cpu, check_memory, check_disk or
\* check_network lands: check_resources has no handler, and the
\* `except Exception` of monitoring_loop is outside its while loop
RaiseTarget == "except"

\* one of the checks raises (a psutil error, a threshold that is no number)
CheckRaises(t) ==
    /\ Running /\ pc[t] = "checks"
    /\ AnyCategoryEnabled
    /\ pc' = [pc EXCEPT ![t] = RaiseTarget]
    /\ UNCHANGED <<now, lock, alert_history, stats, last_alert_times, current_metrics,
                   Sampled, MonitorLocals, Shared, Controls, Logs>>

\* the alert `for alert in alerts` is at
Current(t) == alerts[t][idx[t]]

\* an append made before the lock is taken
RecordAppendUnlocked(t) ==
    /\ Running /\ pc[t] = "record"
    /\ lock = Unlocked
    /\ alert_history' = Append(alert_history, Current(t))
    /\ recorded' = Append(recorded, Current(t))
    /\ pc' = [pc EXCEPT ![t] = "critical"]
    /\ UNCHANGED <<now, lock, stats, last_alert_times, current_metrics, Sampled,
                   MonitorLocals, Shared, Controls, gate_log, send_calls>>

\* `with self.lock: self.alert_history.append(alert)`
RecordAppend(t) ==
    /\ Running /\ pc[t] = "record"
    /\ lock = Unlocked
    /\ lock' = Holder(t)
    /\ alert_history' = Append(alert_history, Current(t))
    /\ recorded' = Append(recorded, Current(t))
    /\ pc' = [pc EXCEPT ![t] = "critical"]
    /\ UNCHANGED <<now, stats, last_alert_times, current_metrics, Sampled,
                   MonitorLocals, Shared, Controls, gate_log, send_calls>>

\* a with block that has not ended when the gate and the send run
RecordCountSending(t) ==
    /\ Running /\ pc[t] = "critical"
    /\ stats' = [stats EXCEPT !.alerts_triggered = @ + 1]
    /\ alert_history' = Evict(alert_history)
    /\ lock' = lock
    /\ pc' = [pc EXCEPT ![t] = "can_send_alert"]
    /\ UNCHANGED <<now, last_alert_times, current_metrics, Sampled,
                   MonitorLocals, Shared, Controls, Logs>>

\* `self.stats["alerts_triggered"] += 1` and
\* `if len(self.alert_history) > 100: self.alert_history.pop(0)`, the lock still
\* held, then the end of the with block
RecordCount(t) ==
    /\ Running /\ pc[t] = "critical"
    /\ stats' = [stats EXCEPT !.alerts_triggered = @ + 1]
    /\ alert_history' = Evict(alert_history)
    /\ lock' = Unlocked
    /\ pc' = [pc EXCEPT ![t] = "can_send_alert"]
    /\ UNCHANGED <<now, last_alert_times, current_metrics, Sampled,
                   MonitorLocals, Shared, Controls, Logs>>

\* a for loop that gives up its remaining alerts once monitoring is disabled
NextAlertPcWhileEnabled(t) ==
    IF idx[t] < Len(alerts[t]) /\ monitoring_enabled THEN "record" ELSE "sleep"

\* the next iteration of `for alert in alerts`, or the return of check_resources
NextAlertPc(t) == IF idx[t] < Len(alerts[t]) THEN "record" ELSE "sleep"
NextAlertIdx(t) == IF idx[t] < Len(alerts[t]) THEN idx[t] + 1 ELSE 0
NextAlertList(t) == IF idx[t] < Len(alerts[t]) THEN alerts[t] ELSE <<>>

\* `if self.can_send_alert(alert.resource, alert.level)`
Gate(t) ==
    LET a == Current(t)
        r == CanSendAlert(last_alert_times, a.resource, a.level, now,
                          Seconds(config.cooldown))
    IN /\ Running /\ pc[t] = "can_send_alert"
       /\ last_alert_times' = r.table
       /\ gate_log' = Append(gate_log, [key |-> AlertKey(a.resource, a.level),
                                        raised |-> a.timestamp, gated |-> now,
                                        ok |-> r.ok])
       /\ pc' = [pc EXCEPT ![t] = IF r.ok THEN "send" ELSE NextAlertPc(t)]
       /\ idx' = [idx EXCEPT ![t] = IF r.ok THEN @ ELSE NextAlertIdx(t)]
       /\ alerts' = [alerts EXCEPT ![t] = IF r.ok THEN @ ELSE NextAlertList(t)]
       /\ UNCHANGED <<now, lock, alert_history, stats, current_metrics, Sampled,
                      slept, Shared, Controls, recorded, send_calls>>

\* a counter that counts every attempt, delivered or not
SentAfterAlways(delivered, sent) == sent + 1

\* `if response.status_code == 200: ... self.stats["notifications_sent"] += 1`
SentAfter(delivered, sent) == IF delivered THEN sent + 1 ELSE sent

\* a call of send_telegram_message with what it returned
Returned(call, delivered) ==
    [kind |-> call.kind, key |-> call.key, raised |-> call.raised,
     delivered |-> delivered]

\* send_telegram_message: the clock, the counter and the log of calls afterwards;
\* outcome.secs is how long requests.post takes, outcome.delivered is status 200
Post(e, call) ==
    IF ~config.telegram.enabled
    THEN /\ send_calls' = Append(send_calls, Returned(call, FALSE))
         /\ UNCHANGED <<now, stats>>
    ELSE \E outcome \in e.post :
           /\ now + outcome.secs <= e.horizon
           /\ now' = now + outcome.secs
           /\ outcome.delivered => lock = Unlocked
           /\ send_calls' = Append(send_calls, Returned(call, outcome.delivered))
           /\ stats' = [stats EXCEPT
                          !.notifications_sent = SentAfter(outcome.delivered, @)]

\* `self.send_telegram_message(message)` for the alert that passed the gate
Send(t, e) ==
    LET a == Current(t) IN
    /\ Running /\ pc[t] = "send"
    /\ Post(e, [kind |-> "alert", key |-> AlertKey(a.resource, a.level),
                raised |-> a.timestamp])
    /\ pc' = [pc EXCEPT ![t] = NextAlertPc(t)]
    /\ idx' = [idx EXCEPT ![t] = NextAlertIdx(t)]
    /\ alerts' = [alerts EXCEPT ![t] = NextAlertList(t)]
    /\ UNCHANGED <<lock, alert_history, last_alert_times, current_metrics, Sampled,
                   slept, Shared, Controls, recorded, gate_log>>

\* `for _ in range(check_interval): if self.stop_event.is_set(): break; time.sleep(1)`
Sleep(t, e) ==
    /\ Running /\ pc[t] = "sleep"
    /\ IF slept[t] < config.check_interval /\ ~StopObserved
       THEN /\ now + Seconds(SleepSeconds) <= e.horizon
            /\ now' = now + Seconds(SleepSeconds)
            /\ slept' = [slept EXCEPT
                           ![t] = IF @ + 1 < config.check_interval THEN @ + 1 ELSE 0]
            /\ pc' = [pc EXCEPT
                        ![t] = IF slept[t] + 1 < config.check_interval
                               THEN "sleep" ELSE "loop"]
       ELSE /\ pc' = [pc EXCEPT ![t] = "loop"]
            /\ slept' = [slept EXCEPT ![t] = 0]
            /\ now' = now
    /\ UNCHANGED <<lock, alert_history, stats, last_alert_times, current_metrics,
                   Sampled, alerts, idx, Shared, Controls, Logs>>

\* a loop that starts over after its handler
AfterExceptAgain == "loop"

\* where monitoring_loop goes after its except clause: it returns
AfterExcept == "dead"

\* `except Exception as e:` of monitoring_loop: one message, then the thread ends
LoopExcept(t, e) ==
    /\ Running /\ pc[t] = "except"
    /\ Post(e, [kind |-> "error", key |-> "", raised |-> now])
    /\ pc' = [pc EXCEPT ![t] = AfterExcept]
    /\ UNCHANGED <<lock, alert_history, last_alert_times, current_metrics, Sampled,
                   MonitorLocals, Shared, Controls, recorded, gate_log>>

(***************************************************************************)
(* start_monitoring, stop_monitoring and save_state, as run by caller c:   *)
(* "main" is run(), "cmd" the bot's handler thread, "app" the thread of    *)
(* restart_application.                                                    *)
(***************************************************************************)
MonitorState == <<now, lock, alert_history, stats, last_alert_times, current_metrics,
                  Sampled, MonitorLocals, Logs>>

\* where c continues after start_monitoring, stop_monitoring and save_state;
\* restart_monitoring returns True after start_monitoring and the handler is done
AfterStart(c) == IF c = "main" THEN "serving" ELSE "idle"
AfterStop(c) == IF c = "main" THEN "save" ELSE "start"
AfterSave(c) == IF c = "main" THEN "exit" ELSE "exec"

\* a start_monitoring that starts a thread whatever the old one does
AlreadyRunningIgnored == FALSE

\* `if self.monitoring_thread and self.monitoring_thread.is_alive()` of
\* start_monitoring
AlreadyRunning == monitoring_thread # None /\ IsAlive(monitoring_thread)

\* start_monitoring: the check, with its early return
StartCheck(c) ==
    /\ Running /\ ctl_pc[c] = "start"
    /\ ctl_pc' = [ctl_pc EXCEPT
                    ![c] = IF AlreadyRunning THEN AfterStart(c) ELSE "launch"]
    /\ UNCHANGED <<MonitorState, pc, Shared, snap, joining, reply, file, prev_image, next_tid, commands>>

\* a start_monitoring that also switches monitoring on
StartThreadEnabling(c) ==
    /\ Running /\ ctl_pc[c] = "launch"
    /\ next_tid <= MaxThreads
    /\ stop_event' = FALSE
    /\ monitoring_enabled' = TRUE
    /\ monitoring_thread' = next_tid
    /\ pc' = [pc EXCEPT ![next_tid] = "loop"]
    /\ next_tid' = next_tid + 1
    /\ ctl_pc' = [ctl_pc EXCEPT ![c] = AfterStart(c)]
    /\ UNCHANGED <<MonitorState, config, process,
                   snap, joining, reply, file, prev_image, commands>>

\* `self.stop_event.clear()`, `self.monitoring_thread = threading.Thread(...)`,
\* `self.monitoring_thread.start()`
StartThread(c) ==
    /\ Running /\ ctl_pc[c] = "launch"
    /\ next_tid <= MaxThreads
    /\ stop_event' = FALSE
    /\ monitoring_thread' = next_tid
    /\ pc' = [pc EXCEPT ![next_tid] = "loop"]
    /\ next_tid' = next_tid + 1
    /\ ctl_pc' = [ctl_pc EXCEPT ![c] = AfterStart(c)]
    /\ UNCHANGED <<MonitorState, monitoring_enabled, config, process,
                   snap, joining, reply, file, prev_image, commands>>

\* `if self.monitoring_thread and self.monitoring_thread.is_alive()` of
\* stop_monitoring
ThreadToJoin == monitoring_thread # None /\ IsAlive(monitoring_thread)

\* stop_monitoring: `self.stop_event.set()` and the check before the join
StopSet(c) ==
    /\ Running /\ ctl_pc[c] = "stop"
    /\ stop_event' = TRUE
    /\ ctl_pc' = [ctl_pc EXCEPT ![c] = IF ThreadToJoin THEN "join" ELSE AfterStop(c)]
    /\ joining' = [joining EXCEPT ![c] = IF ThreadToJoin THEN monitoring_thread ELSE None]
    /\ UNCHANGED <<MonitorState, pc, monitoring_enabled, monitoring_thread, config,
                   process, snap, reply, file, prev_image, next_tid, commands>>

\* `self.monitoring_thread.join(timeout=10.0)` returns because the thread ended
JoinReturns(c) ==
    /\ Running /\ ctl_pc[c] = "join"
    /\ ~IsAlive(joining[c])
    /\ ctl_pc' = [ctl_pc EXCEPT ![c] = AfterStop(c)]
    /\ joining' = [joining EXCEPT ![c] = None]
    /\ UNCHANGED <<MonitorState, pc, Shared, snap, reply, file, prev_image, next_tid, commands>>

\* ... or because the 10 seconds are over: the thread is inside check_resources,
\* which takes the second of the CPU sample and up to 10 seconds per message
JoinTimesOut(c) ==
    /\ Running /\ ctl_pc[c] = "join"
    /\ IsAlive(joining[c]) /\ InTick(joining[c])
    /\ ctl_pc' = [ctl_pc EXCEPT ![c] = AfterStop(c)]
    /\ joining' = [joining EXCEPT ![c] = None]
    /\ UNCHANGED <<MonitorState, pc, Shared, snap, reply, file, prev_image, next_tid, commands>>

\* save_state: `state = {'alert_history': [alert.to_dict() ...], ...}`, no lock taken
SaveSnapshot(c) ==
    /\ Running /\ ctl_pc[c] = "save"
    /\ snap' = [snap EXCEPT ![c] = ToDicts(alert_history)]
    /\ ctl_pc' = [ctl_pc EXCEPT ![c] = "dump"]
    /\ UNCHANGED <<MonitorState, pc, Shared, joining, reply, file, prev_image, next_tid, commands>>

\* save_state: `json.dump(state, f, ...)`; stats and last_alert_times are the live
\* dictionaries, read now
SaveDump(c) ==
    /\ Running /\ ctl_pc[c] = "dump"
    /\ file' = Dump(snap[c], stats, last_alert_times)
    /\ snap' = [snap EXCEPT ![c] = <<>>]
    /\ ctl_pc' = [ctl_pc EXCEPT ![c] = AfterSave(c)]
    /\ UNCHANGED <<MonitorState, pc, Shared, joining, reply, prev_image, next_tid, commands>>

(***************************************************************************)
(* run(), the command handlers and restart_application.                    *)
(***************************************************************************)
\* run(): start_monitoring, then the bot thread is started and waits for commands
RunStart ==
    /\ Running /\ ctl_pc["main"] = "run"
    /\ ctl_pc' = [ctl_pc EXCEPT !["main"] = "start", !["cmd"] = "starting"]
    /\ UNCHANGED <<MonitorState, pc, Shared, snap, joining, reply, file, prev_image, next_tid, commands>>

BotStart ==
    /\ Running /\ ctl_pc["main"] = "serving" /\ ctl_pc["cmd"] = "starting"
    /\ ctl_pc' = [ctl_pc EXCEPT !["cmd"] = "idle"]
    /\ UNCHANGED <<MonitorState, pc, Shared, snap, joining, reply, file, prev_image, next_tid, commands>>

\* KeyboardInterrupt in run(): `finally: self.stop_monitoring(); self.save_state()`
Interrupt ==
    /\ Running /\ ctl_pc["main"] = "serving"
    /\ ctl_pc' = [ctl_pc EXCEPT !["main"] = "stop"]
    /\ UNCHANGED <<MonitorState, pc, Shared, snap, joining, reply, file, prev_image, next_tid, commands>>

\* run() returns and the process ends, its daemon threads with it
Exit ==
    /\ Running /\ ctl_pc["main"] = "exit"
    /\ process' = "exited"
    /\ UNCHANGED <<MonitorState, pc, monitoring_enabled, monitoring_thread, stop_event,
                   config, Controls>>

\* the bot hands the handler thread one more command
Command == /\ Running /\ ctl_pc["cmd"] = "idle"
           /\ commands < MaxCommands
           /\ commands' = commands + 1

\* the enable and disable handlers
CmdEnable ==
    /\ Command
    /\ monitoring_enabled' = TRUE
    /\ UNCHANGED <<MonitorState, pc, monitoring_thread, stop_event, config, process,
                   ctl_pc, snap, joining, reply, file, prev_image, next_tid>>

CmdDisable ==
    /\ Command
    /\ monitoring_enabled' = FALSE
    /\ UNCHANGED <<MonitorState, pc, monitoring_thread, stop_event, config, process,
                   ctl_pc, snap, joining, reply, file, prev_image, next_tid>>

\* the restart handler calls restart_monitoring
CmdRestart ==
    /\ Command
    /\ ctl_pc' = [ctl_pc EXCEPT !["cmd"] = "stop"]
    /\ UNCHANGED <<MonitorState, pc, Shared, snap, joining, reply, file, prev_image, next_tid>>

\* the full_restart handler starts a thread that runs restart_application
CmdFullRestart ==
    /\ Command /\ ctl_pc["app"] = "off"
    /\ ctl_pc' = [ctl_pc EXCEPT !["app"] = "save"]
    /\ UNCHANGED <<MonitorState, pc, Shared, snap, joining, reply, file, prev_image, next_tid>>

\* the emoji get_alerts_message puts before an entry, by level
Emoji(level) ==
    CASE level = "INFO" -> "information"
      [] level = "WARNING" -> "warning sign"
      [] level = "CRITICAL" -> "rotating light"
      [] level = "ERROR" -> "cross mark"
      [] OTHER -> "bar chart"

\* the lines of one alert in the message: the alert's message text is not shown
Shown(alert) ==
    [emoji |-> Emoji(alert.level), resource |-> alert.resource, value |-> alert.value,
     threshold |-> alert.threshold, timestamp |-> alert.timestamp]

\* get_alerts_message: the fixed text for an empty history, or the lines of
\* `self.alert_history[-10:]` in that order
GetAlertsMessage(history) ==
    IF history = <<>>
    THEN [kind |-> "alerts", text |-> "no alert records", entries |-> <<>>]
    ELSE LET last == LastN(history, AlertsShown) IN
         [kind |-> "alerts", text |-> "alert history",
          entries |-> [i \in 1..Len(last) |-> Shown(last[i])]]

\* get_stats_message, without its uptime lines; a start_time that was loaded
\* from monitor_state.json is a string, and `.strftime` on it raises
GetStatsMessage(st) ==
    IF st.start_time.type = "datetime"
    THEN [kind |-> "stats", checks |-> st.checks,
          alerts_triggered |-> st.alerts_triggered,
          notifications_sent |-> st.notifications_sent,
          started |-> st.start_time.at]
    ELSE [kind |-> "raised"]

\* the alerts handler: get_alerts_message runs `with self.lock`
CmdAlerts ==
    /\ Command
    /\ lock = Unlocked
    /\ reply' = GetAlertsMessage(alert_history)
    /\ UNCHANGED <<MonitorState, pc, Shared, ctl_pc, snap, joining, file, prev_image,
                   next_tid>>

\* the stats handler: get_stats_message runs `with self.lock`
CmdStats ==
    /\ Command
    /\ lock = Unlocked
    /\ reply' = GetStatsMessage(stats)
    /\ UNCHANGED <<MonitorState, pc, Shared, ctl_pc, snap, joining, file, prev_image,
                   next_tid>>

\* the status handler: get_system_status reads psutil, then writes three of the
\* current_metrics and formats all five `with self.lock`; its uptime line is
\* left out
CmdStatus(e) ==
    /\ Command
    /\ lock = Unlocked
    /\ \E cpu \in e.cpu, mem \in e.memory, disk \in {d \in e.disk : ~d.err} :
         /\ current_metrics' = [current_metrics EXCEPT !.cpu_percent = cpu,
                                                       !.memory_percent = mem,
                                                       !.disk_percent = disk.percent]
         /\ reply' = [kind |-> "status", metrics |-> current_metrics',
                      enabled |-> monitoring_enabled]
    /\ UNCHANGED <<now, lock, alert_history, stats, last_alert_times, Sampled,
                   MonitorLocals, Logs, pc, Shared, ctl_pc, snap, joining, file,
                   prev_image, next_tid>>

\* `os.execl(python, python, *sys.argv)`: the image is replaced, and the new
\* image's ResourceMonitor.__init__ runs load_state
Exec ==
    /\ Running /\ ctl_pc["app"] = "exec"
    /\ prev_image' = [alert_history |-> alert_history, stats |-> stats,
                      last_alert_times |-> last_alert_times]
    /\ LET loaded == Load(file, Defaults(now)) IN
       /\ alert_history' = loaded.alert_history
       /\ stats' = loaded.stats
       /\ last_alert_times' = loaded.last_alert_times
    /\ process' = "execed"
    /\ monitoring_enabled' = TRUE
    /\ monitoring_thread' = None
    /\ stop_event' = FALSE
    /\ lock' = Unlocked
    /\ pc' = [t \in Threads |-> "unborn"]
    /\ alerts' = [t \in Threads |-> <<>>]
    /\ idx' = [t \in Threads |-> 0]
    /\ slept' = [t \in Threads |-> 0]
    /\ ctl_pc' = [c \in Controllers |-> IF c = "main" THEN "run" ELSE "off"]
    /\ snap' = [c \in Controllers |-> <<>>]
    /\ joining' = [c \in Controllers |-> None]
    /\ reply' = NoReply
    /\ UNCHANGED <<now, config, current_metrics, Sampled, file, next_tid, commands, Logs>>

(***************************************************************************)
(* The specifications.                                                     *)
(***************************************************************************)
\* the steps of the monitoring_loop threads in environment e
Monitor(e) ==
    \E t \in Threads :
         \/ LoopHead(t) \/ RunChecks(t, e) \/ CheckRaises(t)
         \/ RecordAppend(t) \/ RecordCount(t)
         \/ Gate(t) \/ Send(t, e) \/ Sleep(t, e) \/ LoopExcept(t, e)

\* start_monitoring and stop_monitoring, by run() and by restart_monitoring
Lifecycle ==
    \E c \in Controllers :
         \/ StartCheck(c) \/ StartThread(c)
         \/ StopSet(c) \/ JoinReturns(c) \/ JoinTimesOut(c)

Saving == \E c \in Controllers : SaveSnapshot(c) \/ SaveDump(c)

\* the whole program, on a host that is steadily over its CPU threshold
Next ==
    \/ Monitor(EnvSteady) \/ Lifecycle \/ Saving
    \/ RunStart \/ BotStart \/ Interrupt \/ Exit
    \/ CmdEnable \/ CmdDisable \/ CmdRestart \/ CmdFullRestart
    \/ Exec

Spec == Init /\ [][Next]_vars

\* the whole program with its threads scheduled: a monitoring thread that can
\* take a step eventually takes one, and so does a caller of start_monitoring or
\* stop_monitoring
SpecLive ==
    /\ Init /\ [][Next]_vars
    /\ WF_vars(Monitor(EnvSteady))
    /\ WF_vars(Lifecycle)

\* the monitoring loop under the enable, disable and restart commands, on a host
\* whose readings and whose channel vary
NextAlerts ==
    \/ Monitor(Env) \/ Lifecycle
    \/ RunStart \/ BotStart
    \/ CmdEnable \/ CmdDisable \/ CmdRestart

SpecAlerts == Init /\ [][NextAlerts]_vars

\* the monitoring loop alone, for as many ticks as fill the history
NextHistory ==
    \/ \E t \in Threads :
         \/ LoopHead(t) \/ RunChecks(t, EnvHistory)
         \/ RecordAppend(t) \/ RecordCount(t)
         \/ Gate(t) \/ Send(t, EnvHistory) \/ Sleep(t, EnvHistory)
    \/ RunStart \/ StartCheck("main") \/ StartThread("main")

SpecHistory == Init /\ [][NextHistory]_vars

\* one tick of every check, on a host whose readings vary, started up to
\* MaxStartupDelay clock readings after the object was built
InitChecks ==
    /\ \E threshold \in ChecksThresholds, paths \in ChecksPaths,
          cpu_enabled \in BOOLEAN, network_enabled \in BOOLEAN,
          delay \in 0..MaxStartupDelay :
         Fresh([ConfigChecks(threshold, paths, cpu_enabled)
                   EXCEPT !.network.enabled = network_enabled],
               Seconds(Epoch), Seconds(Epoch) + delay)
    /\ alert_history = <<>>
    /\ stats = Defaults(Seconds(Epoch)).stats
    /\ last_alert_times = EmptyTable
    /\ file = NoFile
    /\ ctl_pc = [c \in Controllers |-> IF c = "main" THEN "run" ELSE "off"]
    /\ prev_image = Defaults(Seconds(Epoch))

NextChecks ==
    \/ \E t \in Threads :
         \/ LoopHead(t) \/ RunChecks(t, EnvChecks)
         \/ RecordAppend(t) \/ RecordCount(t)
         \/ Gate(t) \/ Send(t, EnvChecks) \/ Sleep(t, EnvChecks)
    \/ RunStart \/ StartCheck("main") \/ StartThread("main")

SpecChecks == InitChecks /\ [][NextChecks]_vars

\* the alerts, counters and cooldown entries drawn for the round trip
RoundTripAlerts ==
    {Alert("WARNING", "CPU", "cpu over threshold", 85, 80, Seconds(Epoch)),
     Alert("CRITICAL", "Memory", "memory over threshold", 95, 80, Seconds(Epoch + 1))}

RoundTripHistories == UNION {[1..n -> RoundTripAlerts] : n \in 0..MaxLenRT}

RoundTripTables ==
    {EmptyTable, [k \in {AlertKey("CPU", "WARNING")} |-> Seconds(Epoch)]}

\* start_time is the datetime __init__ made, or the string a loaded document gave
RoundTripStartTimes ==
    {DateTime(Seconds(Epoch)), [type |-> "str", at |-> Seconds(Epoch)]}

\* a process in a state of its own, at the moment restart_application is called
InitRoundTrip ==
    /\ Fresh(ConfigCpuMemory, Seconds(Epoch + 1), Seconds(Epoch + 1))
    /\ \E history \in RoundTripHistories, checks \in 0..MaxCountRT,
          sent \in 0..MaxCountRT, start \in RoundTripStartTimes :
         /\ sent <= Len(history)
         /\ alert_history = history
         /\ stats = [checks |-> checks, alerts_triggered |-> Len(history),
                     notifications_sent |-> sent, start_time |-> start]
    /\ last_alert_times \in RoundTripTables
    /\ file = NoFile
    /\ ctl_pc = [c \in Controllers |->
                   IF c = "main" THEN "serving" ELSE IF c = "cmd" THEN "idle" ELSE "save"]
    /\ prev_image = Defaults(Seconds(Epoch))

NextRoundTrip == SaveSnapshot("app") \/ SaveDump("app") \/ Exec

SpecRoundTrip == InitRoundTrip /\ [][NextRoundTrip]_vars

\* the entries of 'alert_history' a monitor_state.json may hold: what to_dict
\* wrote, and an entry whose 'level' is no name of AlertLevel
LoadDicts ==
    {ToDict(a) : a \in RoundTripAlerts}
        \cup {[ToDict(a) EXCEPT !.level = "FATAL"] : a \in RoundTripAlerts}

\* the monitor_state.json files a start may find: none, one that json.load
\* rejects, and documents with up to MaxLenRT entries
LoadFiles ==
    {NoFile, [NoFile EXCEPT !.exists = TRUE]}
        \cup {[exists |-> TRUE, complete |-> TRUE, alert_history |-> dicts,
               stats |-> [checks |-> MaxCountRT, alerts_triggered |-> Len(dicts),
                          notifications_sent |-> sent,
                          start_time |-> [type |-> "str", at |-> Seconds(Epoch)]],
               last_alert_times |-> table] :
                 dicts \in UNION {[1..n -> LoadDicts] : n \in 0..MaxLenRT},
                 sent \in 0..1, table \in RoundTripTables}

\* a process about to be replaced by a new image, with monitor_state.json as found
InitLoad ==
    /\ Fresh(ConfigCpuMemory, Seconds(Epoch + 1), Seconds(Epoch + 1))
    /\ alert_history = Defaults(Seconds(Epoch)).alert_history
    /\ stats = Defaults(Seconds(Epoch)).stats
    /\ last_alert_times = Defaults(Seconds(Epoch)).last_alert_times
    /\ file \in LoadFiles
    /\ ctl_pc = [c \in Controllers |->
                   IF c = "main" THEN "serving" ELSE IF c = "cmd" THEN "idle" ELSE "exec"]
    /\ prev_image = Defaults(Seconds(Epoch))

NextLoad == Exec

SpecLoad == InitLoad /\ [][NextLoad]_vars

\* the history of a run that recorded n alerts, and the monitor_state.json a
\* save of it leaves
SavedHistory(n) ==
    [i \in 1..n |->
        IF i % 2 = 1
        THEN Alert("WARNING", "CPU", "cpu over threshold", 85, 80, Seconds(i))
        ELSE Alert("CRITICAL", "Memory", "memory over threshold", 95, 80, Seconds(i))]

SavedFile(n) ==
    [exists |-> TRUE, complete |-> TRUE, alert_history |-> ToDicts(SavedHistory(n)),
     stats |-> [checks |-> n, alerts_triggered |-> n, notifications_sent |-> 0,
                start_time |-> [type |-> "str", at |-> 0]],
     last_alert_times |-> EmptyTable]

\* a start of the program without monitor_state.json, or with that of a run that
\* recorded up to MaxSaved alerts
InitQueries ==
    /\ \E f \in {NoFile} \cup {SavedFile(n) : n \in 0..MaxSaved} :
         Boot(ConfigCpuMemory, f, Seconds(Epoch))
    /\ ctl_pc = [c \in Controllers |-> IF c = "main" THEN "run" ELSE "off"]
    /\ prev_image = Defaults(Seconds(Epoch))

\* the monitoring loop with the handlers that read the state under the lock
NextQueries ==
    \/ Monitor(EnvSteady)
    \/ RunStart \/ StartCheck("main") \/ StartThread("main") \/ BotStart
    \/ CmdAlerts \/ CmdStats \/ CmdStatus(EnvSteady)

SpecQueries ==
    /\ InitQueries /\ [][NextQueries]_vars
    /\ WF_vars(Monitor(EnvSteady))

(***************************************************************************)
(* Properties.                                                             *)
(***************************************************************************)
\* the calls of send_telegram_message made for alerts, in order
AlertSends == SelectSeq(send_calls, LAMBDA call : call.kind = "alert")

\* the evaluations of can_send_alert that answered True, in order
Passed == SelectSeq(gate_log, LAMBDA g : g.ok)

\* two evaluations of can_send_alert for the same key, the later one within the
\* cooldown of the earlier one by the clock `by` reads off an evaluation
Within(i, j, by(_)) ==
    /\ i < j
    /\ gate_log[i].key = gate_log[j].key
    /\ by(gate_log[j]) - by(gate_log[i]) < Seconds(config.cooldown)

GatedAt(g) == g.gated
RaisedAt(g) == g.raised

\* C1, as stated: of two alerts of the same (resource, severity) pair raised
\* within cooldownSeconds of each other, at most one passes the gate and is sent
C1_CooldownByRaiseTime ==
    \A i, j \in 1..Len(gate_log) :
        Within(i, j, RaisedAt) => ~(gate_log[i].ok /\ gate_log[j].ok)

\* C1, amended: of two alerts of the same pair whose can_send_alert evaluations
\* are within cooldownSeconds of each other, at most one passes, and
\* send_telegram_message is called for an alert only after its evaluation passed
C1_CooldownByGateTime ==
    /\ \A i, j \in 1..Len(gate_log) :
          Within(i, j, GatedAt) => ~(gate_log[i].ok /\ gate_log[j].ok)
    /\ Len(AlertSends) <= Len(Passed)
    /\ \A k \in 1..Len(AlertSends) :
          /\ AlertSends[k].key = Passed[k].key
          /\ AlertSends[k].raised = Passed[k].raised

\* a second alert of a pair was evaluated within the cooldown and suppressed
C1_SecondSuppressed ==
    \E i, j \in 1..Len(gate_log) :
        Within(i, j, GatedAt) /\ gate_log[i].ok /\ ~gate_log[j].ok

\* C2: outside the critical section of check_resources the history holds at most
\* 100 alerts, and they are the most recent ones recorded, oldest first
C2_BoundedFifoHistory ==
    lock = Unlocked =>
        /\ Len(alert_history) <= HistoryCap
        /\ alert_history = LastN(recorded, HistoryCap)

\* more alerts were recorded than the history holds
C2_OldestEvicted == lock = Unlocked /\ Len(recorded) > HistoryCap

\* C3, as stated: the process image that follows a save_state has the alert
\* history, the counters and the cooldown entries of the image that saved
C3_RoundTrip ==
    process = "execed" =>
        /\ alert_history = prev_image.alert_history
        /\ stats.checks = prev_image.stats.checks
        /\ stats.alerts_triggered = prev_image.stats.alerts_triggered
        /\ stats.notifications_sent = prev_image.stats.notifications_sent
        /\ last_alert_times = prev_image.last_alert_times

\* thread t enters check_resources while monitoring is disabled
DisabledTick(t) ==
    /\ pc[t] = "loop" /\ pc'[t] \in {"checks", "sleep"}
    /\ ~monitoring_enabled

C5_AtMostOneLoop == Cardinality({t \in Threads : IsAlive(t)}) <= 1

\* restart_monitoring is about to call start_monitoring while the thread it
\* stopped is still alive, the join having timed out
C5_StartWhileAlive == ctl_pc["cmd"] = "start" /\ AlreadyRunning /\ stop_event

\* restart_monitoring returns True, no shutdown being under way
RestartReturns ==
    /\ ctl_pc["cmd"] \in {"start", "launch"} /\ ctl_pc'["cmd"] = "idle"
    /\ ctl_pc'["main"] = "serving"

\* C6, as stated: when restart_monitoring reports success a monitoring loop is
\* running and its stop flag is cleared
C6_RestartLeavesLoopRunning ==
    [][RestartReturns => (AlreadyRunning' /\ ~stop_event')]_vars

\* thread t evaluates can_send_alert
GateStep(t) == pc[t] = "can_send_alert" /\ pc'[t] # "can_send_alert"

\* the cooldown of key has elapsed, or key was never notified
Elapsed(key) ==
    \/ key \notin DOMAIN last_alert_times
    \/ now - last_alert_times[key] >= Seconds(config.cooldown)

\* C7: an alert evaluated when the cooldown of its pair has elapsed, or when the
\* pair has no entry, passes: its entry is set to the time of the evaluation and
\* send_telegram_message is called for it next
C7_NotifiableAfterCooldown ==
    [][\A t \in Threads :
          /\ GateStep(t) =>
               LET key == AlertKey(Current(t).resource, Current(t).level) IN
               Elapsed(key) =>
                   /\ pc'[t] = "send"
                   /\ key \in DOMAIN last_alert_times'
                   /\ last_alert_times'[key] = now
          /\ (pc[t] = "send" /\ pc'[t] # "send") =>
               /\ Len(send_calls') = Len(send_calls) + 1
               /\ send_calls'[Len(send_calls')].raised = Current(t).timestamp]_vars

\* a pair that was notified is notified again, its cooldown having elapsed
C7_NotifiedAgain ==
    \E i, j \in 1..Len(AlertSends) :
        /\ i < j
        /\ AlertSends[i].key = AlertSends[j].key

\* C8, as stated: whatever happens inside the category checks, the tick goes on
\* to its alerts or to its sleep, and the loop continues
C8_CheckFailureContained ==
    [][\A t \in Threads :
          (pc[t] = "checks" /\ pc'[t] # "checks") =>
              pc'[t] \in {"record", "sleep"}]_vars

\* C9, as stated: can_send_alert is evaluated with the lock held
C9_GateUnderLock ==
    \A t \in Threads : pc[t] = "can_send_alert" => lock = Holder(t)

\* C10, as stated: the document save_state writes is a snapshot of one instant;
\* from an empty start every instant outside the critical section has
\* len(alert_history) = min(100, alerts_triggered)
C10_SavedSnapshotConsistent ==
    file.exists =>
        Len(file.alert_history) = Min(HistoryCap, file.stats.alerts_triggered)

\* C11, as stated: the process image that full_restart launches has exactly the
\* counters and the history the old image had when it was replaced
C11_FullRestartKeepsStats ==
    [][(process = "running" /\ process' = "execed") =>
          /\ stats'.checks = stats.checks
          /\ stats'.alerts_triggered = stats.alerts_triggered
          /\ stats'.notifications_sent = stats.notifications_sent
          /\ alert_history' = alert_history]_vars

\* thread t runs the four checks of a tick and they all answer
ChecksStep(t) == pc[t] = "checks" /\ pc'[t] \in {"record", "sleep"}

\* the alerts of list that name resource
AlertsFor(list, resource) == SelectSeq(list, LAMBDA a : a.resource = resource)

\* list holds one alert for resource if value is over threshold and none
\* otherwise; the one alert is critical over 90, a warning otherwise, and carries
\* the value and the threshold
OneAlertIffOver(list, resource, value, threshold) ==
    LET found == AlertsFor(list, resource) IN
    /\ Len(found) = IF value > threshold THEN 1 ELSE 0
    /\ Len(found) = 1 =>
         /\ found[1].level = IF value > CriticalAbove THEN "CRITICAL" ELSE "WARNING"
         /\ found[1].value = value
         /\ found[1].threshold = threshold

\* the mounts check_disk could read in the tick whose answers are host
MountsRead(host) ==
    {m \in DOMAIN host.disk : DiskSelected(config.disk, m) /\ ~host.disk[m].err}

\* C12: for CPU, memory and every disk mount that was read, the tick's alerts
\* hold exactly one alert for the resource if and only if its percentage is
\* strictly over the threshold; the alert is Critical over 90 and Warning
\* otherwise, with the reading and the threshold in it
C12_OneAlertPerBreach ==
    [][\A t \in Threads :
          ChecksStep(t) =>
              /\ config.cpu.enabled =>
                   OneAlertIffOver(alerts'[t], "CPU", observed'.host.cpu,
                                   config.cpu.threshold)
              /\ config.memory.enabled =>
                   OneAlertIffOver(alerts'[t], "Memory", observed'.host.memory,
                                   config.memory.threshold)
              /\ config.disk.enabled =>
                   \A m \in MountsRead(observed'.host) :
                       OneAlertIffOver(alerts'[t], "Disk " \o m,
                                       observed'.host.disk[m].percent,
                                       config.disk.threshold)]_vars

\* a tick found the CPU at 85 over a threshold of 80, a warning, and a disk
\* mount over 90, critical
C12_WarningAndCritical ==
    \E t \in Threads :
        /\ pc[t] = "record" /\ idx[t] = 1
        /\ \E i, j \in 1..Len(alerts[t]) :
              /\ alerts[t][i].resource = "CPU" /\ alerts[t][i].level = "WARNING"
              /\ alerts[t][i].value = 85 /\ alerts[t][i].threshold = 80
              /\ alerts[t][j].resource = "Disk /data"
              /\ alerts[t][j].level = "CRITICAL"

\* the value of an alert is over its threshold
Exceeds(a) ==
    IF a.resource \in {"Net out", "Net in"} THEN RateAbove(a.value, a.threshold)
    ELSE a.value > a.threshold

\* the speed is exactly the threshold
RateEquals(rate, threshold) == rate.num = threshold * rate.den

\* C13: a reading exactly equal to its threshold produces no alert in any
\* category; the checks themselves change neither the history nor the alert
\* counters, a tick without alerts goes straight to its sleep, and only alerts
\* whose value is over the threshold are ever recorded
C13_StrictThreshold ==
    [][\A t \in Threads :
          /\ ChecksStep(t) =>
               /\ (config.cpu.enabled /\ observed'.host.cpu = config.cpu.threshold)
                     => AlertsFor(alerts'[t], "CPU") = <<>>
               /\ (config.memory.enabled
                     /\ observed'.host.memory = config.memory.threshold)
                     => AlertsFor(alerts'[t], "Memory") = <<>>
               /\ config.disk.enabled =>
                    \A m \in MountsRead(observed'.host) :
                        observed'.host.disk[m].percent = config.disk.threshold
                            => AlertsFor(alerts'[t], "Disk " \o m) = <<>>
               /\ (config.network.enabled
                     /\ RateEquals(current_metrics'.network_sent_speed,
                                   config.network.threshold_sent_mbps))
                     => AlertsFor(alerts'[t], "Net out") = <<>>
               /\ alert_history' = alert_history
               /\ stats'.alerts_triggered = stats.alerts_triggered
               /\ stats'.notifications_sent = stats.notifications_sent
               /\ alerts'[t] = <<>> => pc'[t] = "sleep"
          /\ (pc[t] = "record" /\ pc'[t] # "record") => Exceeds(Current(t))]_vars

\* a tick whose readings were all at their thresholds, the send rate included,
\* is over, and nothing was recorded
C13_AtThresholdNoAlert ==
    \E t \in Threads :
        /\ pc[t] = "sleep" /\ observed.read /\ stats.checks = 1
        /\ config.cpu.enabled /\ observed.host.cpu = config.cpu.threshold
        /\ observed.host.memory = config.memory.threshold
        /\ observed.host.disk["/"] = [err |-> FALSE, percent |-> config.disk.threshold]
        /\ RateEquals(current_metrics.network_sent_speed,
                      config.network.threshold_sent_mbps)
        /\ recorded = <<>> /\ alert_history = <<>> /\ stats.alerts_triggered = 0

\* two fractions are the same number
SameRate(a, b) == a.num * b.den = b.num * a.den

Max(a, b) == IF a > b THEN a ELSE b

\* the MiB sent and received between the last two reads of the counters, and the
\* clock readings between the last two network checks
SentInStep == Mebibytes(prev_net_io'.sent - prev_net_io.sent)
RecvInStep == Mebibytes(prev_net_io'.recv - prev_net_io.recv)
ElapsedInStep == now' - prev_check_time

\* the speeds of the tick are sent and received MiB over `divisor`
SpeedsOver(divisor) ==
    /\ SameRate(current_metrics'.network_sent_speed, Rate(SentInStep, divisor))
    /\ SameRate(current_metrics'.network_recv_speed, Rate(RecvInStep, divisor))

\* C14, as stated: the rates of a tick are the bytes since the previous network
\* check over max(elapsed, 1 second), in MiB/s
C14_RateOverAtLeastOneSecond ==
    [][\A t \in Threads :
          (ChecksStep(t) /\ config.network.enabled) =>
              SpeedsOver(Max(ElapsedInStep, Seconds(1)))]_vars

\* 10 MiB were sent in less than a second, and the send rate, over the threshold
\* of 10 MiB/s, raised an alert
C14_SubSecondInterval ==
    /\ observed.read
    /\ observed.elapsed > 0 /\ observed.elapsed < Seconds(1)
    /\ observed.host.net.sent = 10 * BytesPerMiB
    /\ \E t \in Threads :
          pc[t] = "record" /\ AlertsFor(alerts[t], "Net out") # <<>>

\* the longest a tick of the steady host still takes: the CPU sample and one send
TickSpan == Seconds(CpuSampleSeconds + SendLatencyMax)

\* C15: with the stop requested, the loop at its head ends instead of starting a
\* tick, and the loop in its sleep stops sleeping at once; a thread that has
\* ended stays ended; a loop that is alive when the stop is requested eventually
\* ends; and a join in stop_monitoring eventually returns, whether the loop has
\* ended or not
C15_StopEndsLoop ==
    /\ [][\A t \in Threads :
            process' = "running" =>
                /\ (pc[t] = "loop" /\ stop_event /\ pc'[t] # "loop")
                      => pc'[t] = "dead"
                /\ (pc[t] = "sleep" /\ stop_event
                      /\ (pc'[t] # "sleep" \/ slept'[t] # slept[t]))
                      => (pc'[t] = "loop" /\ now' = now)
                /\ pc[t] = "dead" => pc'[t] = "dead"]_vars
    /\ \A t \in Threads :
          (stop_event /\ IsAlive(t) /\ now + TickSpan <= EnvSteady.horizon)
              ~> (~IsAlive(t) \/ ~Running)
    /\ \A c \in Controllers :
          (ctl_pc[c] = "join" /\ now + TickSpan <= EnvSteady.horizon)
              ~> (ctl_pc[c] # "join" \/ ~Running)

\* a loop has ended because a stop was requested, not because of an error, and
\* the stop_monitoring that requested it has returned
C15_LoopStopped ==
    /\ stop_event /\ ctl_pc["main"] = "save"
    /\ \E t \in Threads : pc[t] = "dead" /\ monitoring_thread = t
    /\ \A k \in 1..Len(send_calls) : send_calls[k].kind # "error"

\* the notifications of a loop error among the calls of send_telegram_message
ErrorSends == {k \in 1..Len(send_calls) : send_calls[k].kind = "error"}

\* C16: the step that handles an exception of the tick ends the thread, makes one
\* call of send_telegram_message for the error and leaves the process and the
\* handlers of the commands as they are; no other step sends an error message;
\* a thread that has ended never runs again and a thread is only created by
\* start_monitoring; a restart_monitoring that finds the loop ended creates a
\* thread that runs the loop, with the stop flag cleared
C16_LoopErrorEndsLoop ==
    [][/\ \A t \in Threads :
            /\ (pc[t] = "except" /\ pc'[t] # "except")
                  => /\ pc'[t] = "dead"
                     /\ Len(send_calls') = Len(send_calls) + 1
                     /\ send_calls'[Len(send_calls')].kind = "error"
                     /\ process' = "running" /\ ctl_pc' = ctl_pc
                     /\ monitoring_thread' = monitoring_thread
            /\ pc[t] = "dead" => pc'[t] = "dead"
            /\ (pc[t] = "unborn" /\ pc'[t] # "unborn")
                  => \E c \in Controllers : ctl_pc[c] = "launch" /\ ctl_pc'[c] # "launch"
       /\ Cardinality(ErrorSends') > Cardinality(ErrorSends)
            => \E t \in Threads : pc[t] = "except" /\ pc'[t] = "dead"
       /\ (ctl_pc["cmd"] = "start" /\ ~IsAlive(monitoring_thread)
              /\ ctl_pc'["cmd"] # "start")
            => ctl_pc'["cmd"] = "launch"
       /\ (ctl_pc["cmd"] = "launch" /\ ctl_pc'["cmd"] # "launch")
            => /\ monitoring_thread' # monitoring_thread
               /\ pc'[monitoring_thread'] = "loop"
               /\ ~stop_event'
               /\ ctl_pc'["cmd"] = "idle"]_vars

\* a loop ended by an exception, one error message was attempted, and a restart
\* command has since brought a second loop up
C16_RestartedAfterError ==
    /\ Cardinality(ErrorSends) = 1
    /\ \E t \in Threads : pc[t] = "dead" /\ monitoring_thread # t
    /\ IsAlive(monitoring_thread) /\ ~stop_event
    /\ ctl_pc["cmd"] = "idle"

\* json.load accepts the file and every entry of its alert_history parses
Loadable(f) ==
    /\ f.exists /\ f.complete
    /\ \A i \in 1..Len(f.alert_history) : WellFormed(f.alert_history[i])

\* C17, as stated: after load_state on a missing file, on a file json.load
\* rejects or on a file with an entry that does not parse, alert_history, stats
\* and last_alert_times are all the defaults of __init__
C17_LoadAllOrNothing ==
    (process = "execed" /\ ~Loadable(file))
        => /\ alert_history = Defaults(now).alert_history
           /\ stats = Defaults(now).stats
           /\ last_alert_times = Defaults(now).last_alert_times

\* load_state has met an entry that does not parse after one that does
C17_MalformedAfterValid ==
    /\ process = "execed" /\ file.exists /\ file.complete
    /\ Len(file.alert_history) = 2
    /\ WellFormed(file.alert_history[1]) /\ ~WellFormed(file.alert_history[2])

\* a notification for key was delivered
DeliveredFor(key) ==
    \E k \in 1..Len(send_calls) :
        /\ send_calls[k].kind = "alert" /\ send_calls[k].key = key
        /\ send_calls[k].delivered

\* a thread is between can_send_alert and the return of send_telegram_message
\* for key
SendPendingFor(key) ==
    \E t \in Threads :
        pc[t] = "send" /\ AlertKey(Current(t).resource, Current(t).level) = key

\* C18, as stated: a pair has an entry in last_alert_times only if a notification
\* for the pair was delivered (or its send is still under way); a send that
\* fails or times out leaves no cooldown entry behind
C18_CooldownOnlyOnDelivery ==
    \A key \in DOMAIN last_alert_times : DeliveredFor(key) \/ SendPendingFor(key)

\* a send has failed and its pair is in cooldown nevertheless
C18_FailedSendInCooldown ==
    \E k \in 1..Len(send_calls) :
        /\ send_calls[k].kind = "alert" /\ ~send_calls[k].delivered
        /\ send_calls[k].key \in DOMAIN last_alert_times
        /\ ~DeliveredFor(send_calls[k].key)

\* the calls of send_telegram_message for alerts that reported delivery
DeliveredSends == SelectSeq(AlertSends, LAMBDA call : call.delivered)

\* the threads between can_send_alert and the return of send_telegram_message
Sending == {t \in Threads : pc[t] = "send"}

\* C19: every alert that passed can_send_alert has had one call of
\* send_telegram_message or is about to have it, and never a second one;
\* the step of that call adds one to notifications_sent if the call reports
\* delivery and nothing otherwise, and the thread goes on to the next alert or to
\* its sleep; notifications_sent changes in no other step
C19_CountedOnDelivery ==
    /\ [](Len(AlertSends) + Cardinality(Sending) = Len(Passed))
    /\ [][/\ \A t \in Threads :
               (pc[t] = "send" /\ pc'[t] # "send")
                  => /\ Len(send_calls') = Len(send_calls) + 1
                     /\ LET call == send_calls'[Len(send_calls')] IN
                        /\ call.kind = "alert"
                        /\ call.key = AlertKey(Current(t).resource, Current(t).level)
                        /\ stats'.notifications_sent =
                              stats.notifications_sent + (IF call.delivered THEN 1 ELSE 0)
                     /\ pc'[t] \in {"record", "sleep"}
          /\ stats'.notifications_sent # stats.notifications_sent
               => /\ Len(send_calls') = Len(send_calls) + 1
                  /\ send_calls'[Len(send_calls')].delivered
                  /\ stats'.notifications_sent = stats.notifications_sent + 1]_vars

\* one notification was delivered and counted, another one failed, was not
\* counted, and its thread has gone on without a second attempt
C19_FailedSendNotCounted ==
    /\ Len(DeliveredSends) = 1 /\ Len(AlertSends) = 2
    /\ stats.notifications_sent = 1
    /\ Sending = {}

Categories == {"cpu", "memory", "disk", "network"}
ResourcesOf(category) ==
    CASE category = "cpu" -> {"CPU"}
      [] category = "memory" -> {"Memory"}
      [] category = "disk" -> {"Disk " \o Partitions[i] : i \in 1..Len(Partitions)}
      [] category = "network" -> {"Net out", "Net in"}

\* the cooldown keys of the alerts of a category
KeysOf(category) ==
    {AlertKey(resource, level) : resource \in ResourcesOf(category), level \in AlertLevel}

\* no alert of list names a resource of category
NoneOf(list, category) ==
    \A k \in 1..Len(list) : list[k].resource \notin ResourcesOf(category)

\* C21: a disabled category has no alert among a tick's alerts, in the history
\* or among the alerts ever recorded, can_send_alert was never evaluated for one
\* of its keys and last_alert_times has none of them; alerts_triggered counts
\* the recorded alerts, all of enabled categories; and with the CPU check
\* disabled the memory check still yields its alert exactly when memory is over
\* its threshold
C21_DisabledCategorySkipped ==
    /\ [](\A category \in Categories :
            ~config[category].enabled =>
                /\ \A t \in Threads : NoneOf(alerts[t], category)
                /\ NoneOf(alert_history, category)
                /\ NoneOf(recorded, category)
                /\ \A k \in 1..Len(gate_log) : gate_log[k].key \notin KeysOf(category)
                /\ DOMAIN last_alert_times \cap KeysOf(category) = {})
    /\ [](lock = Unlocked => stats.alerts_triggered = Len(recorded))
    /\ [][\A t \in Threads :
            (ChecksStep(t) /\ ~config.cpu.enabled /\ config.memory.enabled)
                => OneAlertIffOver(alerts'[t], "Memory", observed'.host.memory,
                                   config.memory.threshold)]_vars

\* a tick with the CPU and the network checks disabled has recorded and gated a
\* memory alert
C21_OnlyEnabledRecorded ==
    /\ ~config.cpu.enabled /\ ~config.network.enabled
    /\ \E k \in 1..Len(gate_log) : gate_log[k].key = AlertKey("Memory", "CRITICAL")
    /\ \E t \in Threads : pc[t] = "sleep"

\* thread t takes a step
Steps(t) ==
    pc'[t] # pc[t] \/ slept'[t] # slept[t] \/ idx'[t] # idx[t] \/ alerts'[t] # alerts[t]

\* C22: monitoring_enabled is read at the entry of a tick and nowhere else. A
\* tick goes on to its checks exactly if the flag is set at its entry; a tick in
\* flight while the flag is off still reads the host, records each of its alerts
\* and evaluates can_send_alert for it, and ends only after its last alert;
\* a thread in its sleep evaluates nothing, whatever the flag
C22_FlagReadAtTickEntry ==
    [][\A t \in Threads :
          /\ (pc[t] = "loop" /\ pc'[t] \notin {"loop", "dead"})
                => (pc'[t] = "checks") = monitoring_enabled
          /\ (~monitoring_enabled /\ Steps(t)) =>
                /\ pc[t] = "checks" =>
                      \/ pc'[t] = "except"
                      \/ observed'.read /\ observed'.at = now'
                /\ pc[t] = "record" =>
                      /\ recorded' = Append(recorded, Current(t))
                      /\ alert_history' = Append(alert_history, Current(t))
                /\ pc[t] = "critical" =>
                      stats'.alerts_triggered = stats.alerts_triggered + 1
                /\ pc[t] = "can_send_alert" =>
                      /\ Len(gate_log') = Len(gate_log) + 1
                      /\ gate_log'[Len(gate_log')].key =
                            AlertKey(Current(t).resource, Current(t).level)
          /\ (InTick(t) /\ pc'[t] = "sleep") =>
                \/ pc[t] = "checks" /\ alerts'[t] = <<>>
                \/ pc[t] \in {"can_send_alert", "send"} /\ idx[t] = Len(alerts[t])
          /\ (pc[t] = "sleep" /\ Steps(t)) =>
                /\ pc'[t] \in {"sleep", "loop"}
                /\ recorded' = recorded /\ gate_log' = gate_log
                /\ observed' = observed /\ stats' = stats]_vars

\* monitoring was disabled while a tick with two alerts was in flight, and the
\* tick is about to record its second alert
C22_DisabledMidTick ==
    \E t \in Threads :
        /\ ~monitoring_enabled /\ pc[t] = "record" /\ idx[t] = 2
        /\ Len(recorded) = 1 /\ stats.checks = 1

\* the fraction rate is strictly over threshold
Over(rate, threshold) == rate.num > threshold * rate.den

\* the network alerts among list
NetAlerts(list) == SelectSeq(list, LAMBDA a : a.resource \in ResourcesOf("network"))

\* C23: a tick's alerts hold one outbound alert if the send rate it computed is
\* strictly over threshold_sent_mbps and none otherwise, one inbound alert if
\* the receive rate is strictly over threshold_recv_mbps and none otherwise,
\* each test on its own; every network alert is a warning and carries its rate
\* and its threshold
C23_NetworkWarnings ==
    [][\A t \in Threads :
          (ChecksStep(t) /\ config.network.enabled) =>
              LET outbound == AlertsFor(alerts'[t], "Net out")
                  inbound == AlertsFor(alerts'[t], "Net in")
                  sent == current_metrics'.network_sent_speed
                  recv == current_metrics'.network_recv_speed
              IN /\ sent.den > 0 /\ recv.den > 0
                 /\ sent.num = SentInStep * Second /\ recv.num = RecvInStep * Second
                 /\ Len(outbound) = IF Over(sent, config.network.threshold_sent_mbps)
                                    THEN 1 ELSE 0
                 /\ Len(inbound) = IF Over(recv, config.network.threshold_recv_mbps)
                                   THEN 1 ELSE 0
                 /\ Len(NetAlerts(alerts'[t])) = Len(outbound) + Len(inbound)
                 /\ \A k \in 1..Len(outbound) :
                       /\ outbound[k].value = sent
                       /\ outbound[k].threshold = config.network.threshold_sent_mbps
                 /\ \A k \in 1..Len(inbound) :
                       /\ inbound[k].value = recv
                       /\ inbound[k].threshold = config.network.threshold_recv_mbps
                 /\ \A k \in 1..Len(alerts'[t]) :
                       alerts'[t][k].resource \in ResourcesOf("network")
                           => alerts'[t][k].level = "WARNING"]_vars

\* a tick raised an inbound alert and no outbound one, at a receive rate of
\* forty times the threshold, and the alert is a warning
C23_InboundOnly ==
    \E t \in Threads :
        /\ pc[t] = "record"
        /\ AlertsFor(alerts[t], "Net out") = <<>>
        /\ \E k \in 1..Len(alerts[t]) :
              /\ alerts[t][k].resource = "Net in" /\ alerts[t][k].level = "WARNING"
              /\ alerts[t][k].value.num >= 4 * 10 * alerts[t][k].value.den

\* the handler thread answers the alerts command in this step
AlertsAnswered == commands' = commands + 1 /\ reply'.kind = "alerts"

\* C24: the answer to the alerts command lists the last 10 entries of
\* alert_history, or all of them when there are fewer, oldest first and the most
\* recent last; it is the fixed text exactly when the history is empty; and the
\* step changes neither the history nor the counters nor the cooldown table
C24_AlertsShowsLastTen ==
    [][AlertsAnswered =>
          LET n == Len(alert_history)
              m == Len(reply'.entries)
          IN /\ m = Min(n, AlertsShown)
             /\ \A i \in 1..m :
                   LET a == alert_history[n - m + i] IN
                   /\ reply'.entries[i].resource = a.resource
                   /\ reply'.entries[i].value = a.value
                   /\ reply'.entries[i].threshold = a.threshold
                   /\ reply'.entries[i].timestamp = a.timestamp
             /\ (reply'.text = "no alert records") = (n = 0)
             /\ alert_history' = alert_history
             /\ stats' = stats
             /\ last_alert_times' = last_alert_times]_vars

\* the alerts command was answered from a history of more than 10 entries, with
\* 10 of them, the last being the newest alert
C24_TenOfMore ==
    /\ reply.kind = "alerts" /\ Len(reply.entries) = AlertsShown
    /\ Len(alert_history) > AlertsShown
    /\ reply.entries[AlertsShown].timestamp = alert_history[Len(alert_history)].timestamp
    /\ reply.entries[1].timestamp < reply.entries[AlertsShown].timestamp

\* the threads between the append of an alert and its count, and between the
\* append and the evaluation of can_send_alert
Counting == {t \in Threads : pc[t] = "critical"}
Ungated == {t \in Threads : pc[t] \in {"critical", "can_send_alert"}}

\* the evaluations of can_send_alert for key that answered True
PassedFor(key) == {k \in 1..Len(gate_log) : gate_log[k].ok /\ gate_log[k].key = key}

\* C25: every alert a tick found is appended to the history and counted, and then
\* can_send_alert is evaluated for it, whatever the answer; an evaluation that
\* suppresses the alert changes no cooldown entry and sends nothing; and every
\* cooldown entry is the time of the last evaluation that let an alert of its
\* pair through
C25_RecordedThoughSuppressed ==
    /\ [](/\ Len(recorded) = Len(gate_log) + Cardinality(Ungated)
          /\ stats.alerts_triggered = Len(recorded) - Cardinality(Counting)
          /\ DOMAIN last_alert_times = {gate_log[k].key : k \in
                                           {j \in 1..Len(gate_log) : gate_log[j].ok}}
          /\ \A key \in DOMAIN last_alert_times :
                /\ PassedFor(key) # {}
                /\ \A k \in PassedFor(key) : gate_log[k].gated <= last_alert_times[key]
                /\ \E k \in PassedFor(key) : gate_log[k].gated = last_alert_times[key])
    /\ [][\A t \in Threads :
            (pc[t] = "can_send_alert" /\ pc'[t] # "can_send_alert") =>
                /\ Len(gate_log') = Len(gate_log) + 1
                /\ \E k \in 1..Len(recorded) : recorded[k] = Current(t)
                /\ ~gate_log'[Len(gate_log')].ok =>
                      /\ last_alert_times' = last_alert_times
                      /\ send_calls' = send_calls
                      /\ pc'[t] # "send"]_vars

\* an alert was suppressed after it had been recorded and counted, and the
\* cooldown entry of its pair is still the time of the earlier evaluation
C25_SuppressedButCounted ==
    \E k \in 1..Len(gate_log) :
        /\ ~gate_log[k].ok
        /\ gate_log[k].key \in DOMAIN last_alert_times
        /\ last_alert_times[gate_log[k].key] < gate_log[k].gated
        /\ stats.alerts_triggered = Len(gate_log)
        /\ Len(alert_history) = Len(gate_log)

\* resource names as the checks form them, among them disks mounted at paths
\* that end like a level
KeyedResources ==
    UNION {ResourcesOf(c) : c \in Categories}
        \cup {"Disk /data_WARNING", "Disk /data_CRITICAL", "Disk /data_"}

\* two different (resource, level) pairs have different keys
KeysInjective ==
    \A r1, r2 \in KeyedResources, l1, l2 \in AlertLevel :
        AlertKey(r1, l1) = AlertKey(r2, l2) => (r1 = r2 /\ l1 = l2)

\* C26: two different (resource, level) pairs never have the same key; the k-th
\* evaluation of can_send_alert is for the k-th recorded alert and under the key
\* of its pair; an evaluation answers by the entry of its own key alone and
\* changes no entry of another key; and an alert is suppressed only within the
\* cooldown of an earlier notification of the same resource and the same level
C26_KeysIndependent ==
    /\ []KeysInjective
    /\ [](\A k \in 1..Len(gate_log) :
             /\ gate_log[k].key = AlertKey(recorded[k].resource, recorded[k].level)
             /\ ~gate_log[k].ok =>
                   \E j \in 1..(k - 1) :
                       /\ gate_log[j].ok
                       /\ recorded[j].resource = recorded[k].resource
                       /\ recorded[j].level = recorded[k].level
                       /\ gate_log[k].gated - gate_log[j].gated < Seconds(config.cooldown))
    /\ [][\A t \in Threads :
            (pc[t] = "can_send_alert" /\ pc'[t] # "can_send_alert") =>
                LET own == AlertKey(Current(t).resource, Current(t).level) IN
                /\ gate_log'[Len(gate_log')].ok =
                      ~(now - LastTime(last_alert_times, own) < Seconds(config.cooldown))
                /\ DOMAIN last_alert_times' \subseteq DOMAIN last_alert_times \cup {own}
                /\ \A key \in DOMAIN last_alert_times :
                      key # own => /\ key \in DOMAIN last_alert_times'
                                   /\ last_alert_times'[key] = last_alert_times[key]]_vars

\* a critical CPU alert passed the gate within the cooldown of a CPU warning that
\* had passed it
C26_CriticalWithinWarningWindow ==
    \E j, k \in 1..Len(gate_log) :
        /\ j < k /\ gate_log[j].ok /\ gate_log[k].ok
        /\ gate_log[j].key = AlertKey("CPU", "WARNING")
        /\ gate_log[k].key = AlertKey("CPU", "CRITICAL")
        /\ gate_log[k].gated - gate_log[j].gated < Seconds(config.cooldown)

\* the handler thread takes a step of restart_monitoring: the call itself, or a
\* step of its stop_monitoring or start_monitoring
RestartStep ==
    /\ ctl_pc'["cmd"] # ctl_pc["cmd"]
    /\ \/ ctl_pc["cmd"] \in {"stop", "join", "start", "launch"}
       \/ ctl_pc'["cmd"] = "stop"

\* C27: no step of restart_monitoring changes alert_history, the counters, the
\* cooldown table, the enabled flag or the configuration; the first tick of a
\* loop started while monitoring is disabled is skipped; and an alert is let
\* through only if no notification of its key passed the gate within the
\* cooldown before, whichever loop evaluated it
C27_RestartKeepsState ==
    /\ [][RestartStep =>
             /\ alert_history' = alert_history
             /\ stats' = stats
             /\ last_alert_times' = last_alert_times
             /\ monitoring_enabled' = monitoring_enabled
             /\ config' = config]_vars
    /\ [][\A t \in Threads :
             (pc[t] = "loop" /\ ~monitoring_enabled /\ ~stop_event /\ pc'[t] # "loop")
                 => pc'[t] = "sleep"]_vars
    /\ [](\A j, k \in 1..Len(gate_log) :
             (j < k /\ gate_log[j].ok /\ gate_log[k].ok
                 /\ gate_log[j].key = gate_log[k].key)
                 => gate_log[k].gated - gate_log[j].gated >= Seconds(config.cooldown))

\* monitoring was restarted while disabled: the second loop is up, has skipped
\* its first tick, and the cooldown entry written by the first loop is still
\* there
C27_RestartedWhilePaused ==
    /\ monitoring_thread = 2 /\ pc[2] = "sleep" /\ pc[1] = "dead"
    /\ ~monitoring_enabled /\ ctl_pc["cmd"] = "idle"
    /\ stats.checks = 1
    /\ last_alert_times # EmptyTable

\* the mount points of the host
Mounts == {Partitions[i] : i \in 1..Len(Partitions)}

\* C28: the disk check yields an alert for a mount only if the mount is in the
\* configured list, or the list is empty; a considered mount whose usage could
\* be read has its alert exactly when it is over the threshold, whether or not
\* the read of another mount failed; a mount whose read failed has none; and
\* every disk alert names a partition of the host
C28_DiskMountsAndFailures ==
    [][\A t \in Threads :
          (ChecksStep(t) /\ config.disk.enabled) =>
              \A m \in Mounts :
                  LET considered == m \in config.disk.paths \/ config.disk.paths = {}
                      usage == observed'.host.disk[m]
                      found == AlertsFor(alerts'[t], "Disk " \o m)
                  IN /\ ~considered => found = <<>>
                     /\ (considered /\ usage.err) => found = <<>>
                     /\ (considered /\ ~usage.err) =>
                           Len(found) = IF usage.percent > config.disk.threshold
                                        THEN 1 ELSE 0
                     /\ \A k \in 1..Len(alerts'[t]) :
                           alerts'[t][k].resource \notin {"CPU", "Memory", "Net out", "Net in"}
                               => alerts'[t][k].resource \in ResourcesOf("disk")]_vars

\* with an empty path list, the read of "/" failed and the tick still raised the
\* alert of "/data"
C28_SkippedAndContinued ==
    \E t \in Threads :
        /\ pc[t] = "record" /\ config.disk.paths = {}
        /\ observed.host.disk["/"].err
        /\ ~observed.host.disk["/data"].err
        /\ AlertsFor(alerts[t], "Disk /") = <<>>
        /\ AlertsFor(alerts[t], "Disk /data") # <<>>

\* C29: from an empty state, whenever the lock is free the history holds
\* min(100, alerts_triggered) entries and the counter equals the number of
\* alerts recorded; a history of 101 entries exists only while the thread that
\* appended holds the lock, and while it holds the lock nothing but its own
\* increment and eviction changes the history or the counter
C29_LengthFollowsCounter ==
    /\ [](lock = Unlocked =>
            /\ Len(alert_history) = Min(HistoryCap, stats.alerts_triggered)
            /\ stats.alerts_triggered = Len(recorded))
    /\ [](Len(alert_history) <= HistoryCap + 1)
    /\ [](Len(alert_history) = HistoryCap + 1 =>
            \E t \in Threads : lock = Holder(t) /\ pc[t] = "critical")
    /\ [][\A t \in Threads :
            lock = Holder(t) =>
                \/ /\ alert_history' = alert_history
                   /\ stats'.alerts_triggered = stats.alerts_triggered
                   /\ lock' = lock
                \/ /\ pc[t] = "critical" /\ pc'[t] # "critical"
                   /\ stats'.alerts_triggered = stats.alerts_triggered + 1
                   /\ alert_history' = Evict(alert_history)
                   /\ lock' = Unlocked]_vars

\* the 101st entry is in the list, the counter still says 100 and the lock is
\* held by the thread that appended
C29_OverfullInsideLock ==
    \E t \in Threads :
        /\ lock = Holder(t) /\ pc[t] = "critical"
        /\ Len(alert_history) = HistoryCap + 1
        /\ stats.alerts_triggered = HistoryCap

\* C30: the lock is held only by a monitoring thread between its append and its
\* increment, never by a thread that is at the cooldown gate, in
\* send_telegram_message or anywhere else outside that block; the holder's next
\* step needs nothing from any other thread; a handler's answer is given with the
\* lock free before and after it, also when the handler raised; and a lock that
\* is held is released
C30_LockNeverDeadlocks ==
    /\ [](\A t \in Threads :
            /\ lock = Holder(t) => pc[t] = "critical" /\ ENABLED RecordCount(t)
            /\ pc[t] \in {"can_send_alert", "send", "except"} => lock # Holder(t))
    /\ [](lock = Unlocked \/ \E t \in Threads : lock = Holder(t))
    /\ [][reply' # reply => lock = Unlocked /\ lock' = Unlocked]_vars
    /\ [][\A t \in Threads :
            (pc[t] \in {"send", "except"} /\ pc'[t] # pc[t])
                => lock = Unlocked /\ lock' = Unlocked]_vars
    /\ (lock # Unlocked) ~> (lock = Unlocked)

\* a monitoring thread holds the lock while the bot is polling, after an earlier
\* alert of the same run went through send_telegram_message
C30_HeldWhileBotPolls ==
    \E t \in Threads :
        /\ lock = Holder(t) /\ pc[t] = "critical"
        /\ ctl_pc["cmd"] = "idle"
        /\ reply # NoReply
        /\ \E k \in 1..Len(send_calls) : send_calls[k].delivered

====
